---- MODULE Spec2Model ----
(***************************************************************************)
(* Model of the HeyGen video generator: the VideoGenerator component of    *)
(* src/app/page.tsx (generateVideo, pollVideoStatus, resetGenerator) and   *)
(* the two proxy routes it talks to (POST /api/generate in                 *)
(* src/unnamed/part_000, GET /api/status/[videoId] in                      *)
(* src/app/api/status/[videoId]/route.ts).                                 *)
(*                                                                         *)
(* Every invocation of generateVideo is an async call: it runs up to its   *)
(* next await in one step, and the steps of several invocations, of the    *)
(* user's clicks and of the remote answers interleave.                     *)
(***************************************************************************)
EXTENDS Integers, Sequences, FiniteSets, TLC

VARIABLES prompt, videoStatus, logs, tasks, HEYGEN_KEY, lastOp

vars == <<prompt, videoStatus, logs, tasks, HEYGEN_KEY, lastOp>>

----------------------------------------------------------------------------
(* Bounds of the exploration *)

\* invocations of generateVideo (clicks on Generate) that are explored
MaxInvocations == 2

\* invocations that are suspended at an await at the same time
MaxInFlight == 2

\* non-terminal answers the remote gives to one job in the interleaved
\* specification (the single-attempt specification lets it answer up to
\* maxAttempts times)
MaxPending == 1

----------------------------------------------------------------------------
(* Program constants *)

maxAttempts == 100

MaxPromptLength == 1500

PollIntervalMs == 3000

ProgressBase == 30

ProgressStep == 2

ProgressCap == 90

----------------------------------------------------------------------------
(* Values *)

\* undefined / absent field of a JavaScript object
Null == "<undefined>"

\* JavaScript truthiness of a string-or-undefined value (x || y, !x)
Falsy(x) == x = Null \/ x = ""

Or(x, y) == IF Falsy(x) THEN y ELSE x

Min(a, b) == IF a < b THEN a ELSE b

\* A prompt is a string; only its length and the length of what trim()
\* leaves matter: lead whitespace characters, then core characters (first
\* and last not whitespace), then trail whitespace characters.
PromptLength(p) == p.lead + p.core + p.trail

Trim(p) == [lead |-> 0, core |-> p.core, trail |-> 0]

MkPrompt(l, c, t) == [lead |-> l, core |-> c, trail |-> t]

\* "Create an engaging introduction video for my business!"
DefaultPrompt == MkPrompt(0, 54, 0)

\* what the user may type: nothing, blanks only, the longest accepted text,
\* one character more, and an accepted core padded to one character more
Prompts ==
    { MkPrompt(0, 0, 0), MkPrompt(3, 0, 0),
      MkPrompt(0, MaxPromptLength, 0), MkPrompt(0, MaxPromptLength + 1, 0),
      MkPrompt(1, MaxPromptLength - 1, 1) }

\* the remote names the job of the n-th creation request "v<n>" and serves
\* its result under these two URLs
IdOf(n) == "v" \o ToString(n)

UrlOf(id) == "https://files/" \o id \o ".mp4"

OutputUrlOf(id) == "https://files/output/" \o id \o ".mp4"

Statuses == {"idle", "generating", "processing", "completed", "failed"}

MkStatus(s, p, id, url, err) ==
    [status |-> s, progress |-> p, videoId |-> id, videoUrl |-> url, error |-> err]

addLog_Append(l, type, message) == l \o <<[type |-> type, message |-> message]>>

addLog(l, type, message) == <<[type |-> type, message |-> message]>> \o l

----------------------------------------------------------------------------
(* The remote service and the proxy routes *)

\* JSON body of an answer: data.video_id, data.status, data.video_url,
\* data.output.video_url, data.error.message, error (present or not),
\* error.message
EmptyBody ==
    [video_id |-> Null, status |-> Null, video_url |-> Null,
     output_video_url |-> Null, data_error_message |-> Null,
     hasError |-> FALSE, error_message |-> Null]

ErrorBody(msg) == [EmptyBody EXCEPT !.hasError = TRUE, !.error_message = msg]

\* An answer of api.heygen.com as the proxy's fetch sees it
MkUpstream(net, ctype, parses, code, body) ==
    [net |-> net, contentType |-> ctype, parses |-> parses, code |-> code, body |-> body]

UpstreamDown == MkUpstream("down", "none", FALSE, 0, EmptyBody)

\* An answer as the browser's fetch sees it; thrown: fetch() or json() rejects
MkResponse(code, body) == [thrown |-> FALSE, message |-> Null, code |-> code, body |-> body]

TransportFailure == [thrown |-> TRUE, message |-> "Failed to fetch", code |-> 0, body |-> EmptyBody]

ResponseOk(r) == r.code >= 200 /\ r.code <= 299

GenUpstreams(n) ==
    { UpstreamDown,
      MkUpstream("ok", "text/html", FALSE, 502, EmptyBody),
      MkUpstream("ok", "application/json", TRUE, 400, EmptyBody),
      MkUpstream("ok", "application/json", TRUE, 400, ErrorBody(Null)),
      MkUpstream("ok", "application/json", TRUE, 400, ErrorBody("quota exceeded")),
      MkUpstream("ok", "application/json", TRUE, 400,
                 [ErrorBody("quota exceeded") EXCEPT !.video_id = "v1"]) }
    \cup { MkUpstream("ok", "application/json", TRUE, 200, [EmptyBody EXCEPT !.video_id = id]) :
             id \in {IdOf(n), Null, ""} }

\* the answers explored when several invocations interleave
CoreGenUpstreams(n) ==
    { MkUpstream("ok", "application/json", TRUE, 400, ErrorBody("quota exceeded")),
      MkUpstream("ok", "application/json", TRUE, 200, EmptyBody),
      MkUpstream("ok", "application/json", TRUE, 200, [EmptyBody EXCEPT !.video_id = IdOf(n)]) }


StatusUpstreams(videoId) ==
    { UpstreamDown,
      MkUpstream("ok", "text/html", FALSE, 502, EmptyBody),
      MkUpstream("ok", "application/json", FALSE, 200, EmptyBody),
      MkUpstream("ok", "application/json", TRUE, 404, EmptyBody),
      MkUpstream("ok", "application/json", TRUE, 404, ErrorBody("video not found")),
      MkUpstream("ok", "application/json", TRUE, 500,
                 [EmptyBody EXCEPT !.status = "completed", !.video_url = UrlOf(videoId)]) }
    \cup { MkUpstream("ok", "application/json", TRUE, 200, [EmptyBody EXCEPT !.status = s]) :
             s \in {Null, "processing"} }
    \cup { MkUpstream("ok", "application/json", TRUE, 200,
                      [EmptyBody EXCEPT !.status = "completed", !.video_url = u, !.output_video_url = o]) :
             u \in {Null, "", UrlOf(videoId)}, o \in {Null, OutputUrlOf(videoId)} }
    \cup { MkUpstream("ok", "application/json", TRUE, 200,
                      [EmptyBody EXCEPT !.status = "failed", !.data_error_message = m]) :
             m \in {Null, "", "synthesis error"} }

CoreStatusUpstreams(videoId) ==
    { MkUpstream("ok", "text/html", FALSE, 502, EmptyBody),
      MkUpstream("ok", "application/json", TRUE, 200, [EmptyBody EXCEPT !.status = "processing"]),
      MkUpstream("ok", "application/json", TRUE, 200,
                 [EmptyBody EXCEPT !.status = "completed", !.video_url = UrlOf(videoId)]),
      MkUpstream("ok", "application/json", TRUE, 200,
                 [EmptyBody EXCEPT !.status = "failed", !.data_error_message = "synthesis error"]) }

\* POST /api/generate
GenerateRoute(up, key) ==
    IF ~key THEN MkResponse(500, ErrorBody("HeyGen API key not configured"))
    ELSE IF up.net = "down" THEN MkResponse(500, ErrorBody("Server error: " \o "fetch failed"))
    ELSE IF ~up.parses THEN MkResponse(500, ErrorBody("Invalid JSON response from HeyGen"))
    ELSE IF ~(up.code >= 200 /\ up.code <= 299)
         THEN MkResponse(up.code,
                         IF up.body.hasError THEN ErrorBody(up.body.error_message)
                         ELSE ErrorBody("HeyGen API request failed"))
    ELSE MkResponse(up.code, up.body)

StatusRoute_Lenient(up, key) ==
    IF ~key THEN MkResponse(500, ErrorBody("HeyGen API key not configured"))
    ELSE IF up.net = "down" THEN MkResponse(500, ErrorBody("Server error: " \o "fetch failed"))
    ELSE IF up.contentType # "application/json" \/ ~up.parses
         THEN MkResponse(200, EmptyBody)
    ELSE IF ~(up.code >= 200 /\ up.code <= 299)
         THEN MkResponse(up.code,
                         IF up.body.hasError THEN ErrorBody(up.body.error_message)
                         ELSE ErrorBody("HeyGen status API request failed"))
    ELSE MkResponse(up.code, up.body)

\* GET /api/status/[videoId]
StatusRoute(up, key) ==
    IF ~key THEN MkResponse(500, ErrorBody("HeyGen API key not configured"))
    ELSE IF up.net = "down" THEN MkResponse(500, ErrorBody("Server error: " \o "fetch failed"))
    ELSE IF up.contentType # "application/json"
         THEN MkResponse(500, ErrorBody("Invalid response format from HeyGen API"))
    ELSE IF ~up.parses THEN MkResponse(500, ErrorBody("Server error: " \o "Unexpected token"))
    ELSE IF ~(up.code >= 200 /\ up.code <= 299)
         THEN MkResponse(up.code,
                         IF up.body.hasError THEN ErrorBody(up.body.error_message)
                         ELSE ErrorBody("HeyGen status API request failed"))
    ELSE MkResponse(up.code, up.body)

\* the browser did not reach the route
NoUpstream == MkUpstream("none", "none", FALSE, 0, EmptyBody)

\* requests a route sends to api.heygen.com for one request of the browser:
\* its single fetch, after the check of the key
UpstreamRequests(up, key) == IF key /\ up.net # "none" THEN 1 ELSE 0

\* an answer of a route with the upstream answer it was made from
Via(up, r) == [up |-> up, resp |-> r]

GenAnswers(n, key, all) ==
    IF all THEN { Via(up, GenerateRoute(up, key)) : up \in GenUpstreams(n) }
                \cup {Via(NoUpstream, TransportFailure)}
    ELSE { Via(up, GenerateRoute(up, key)) : up \in CoreGenUpstreams(n) }

StatusAnswers(videoId, key, all) ==
    IF all THEN { Via(up, StatusRoute(up, key)) : up \in StatusUpstreams(videoId) }
                \cup {Via(NoUpstream, TransportFailure)}
    ELSE { Via(up, StatusRoute(up, key)) : up \in CoreStatusUpstreams(videoId) }

\* what `await fetch("/api/generate")` followed by `await genRes.json()`
\* yields for the n-th creation request
GenResponses(n, key, all) ==
    IF all THEN { GenerateRoute(up, key) : up \in GenUpstreams(n) } \cup {TransportFailure}
    ELSE { GenerateRoute(up, key) : up \in CoreGenUpstreams(n) }

\* what `await fetch("/api/status/<id>")` followed by `await statusRes.json()` yields
StatusResponses(videoId, key, all) ==
    IF all THEN { StatusRoute(up, key) : up \in StatusUpstreams(videoId) } \cup {TransportFailure}
    ELSE { StatusRoute(up, key) : up \in CoreStatusUpstreams(videoId) }

----------------------------------------------------------------------------
(* Invocations of generateVideo *)

\* One invocation: where it is suspended (pc), its locals (videoId,
\* attempts) and a record of what it has done so far: the prompt it read,
\* the creation requests and status queries it sent, the identifiers it put
\* in the status queries, the identifier in the creation answer, the
\* non-terminal answers it received, the progress values it published, the
\* time it slept, and how it ended.
NewTask(p) ==
    [pc |-> "done", prompt |-> p, videoId |-> Null, attempts |-> 0,
     creates |-> 0, queries |-> 0, queryIds |-> {}, respId |-> Null,
     nonTerminal |-> 0, published |-> <<>>, slept |-> 0, outcome |-> "rejected"]

InFlight(t) == t.pc # "done"

ProgressOf_Ahead(attempts) == Min(ProgressBase + (attempts + 1) * ProgressStep, ProgressCap)

ProgressOf_Unclamped(attempts) == ProgressBase + attempts * ProgressStep

ProgressOf(attempts) == Min(ProgressBase + attempts * ProgressStep, ProgressCap)

\* The three results of a step of an invocation: its own record, the
\* component state and the log
Step(t, vs, lg) == [task |-> t, videoStatus |-> vs, logs |-> lg]

\* if (!prompt.trim()) ... if (prompt.length > 1500) ...
PromptEmpty(p) == PromptLength(Trim(p)) = 0

PromptTooLong_Trimmed(p) == PromptLength(Trim(p)) > MaxPromptLength

PromptTooLong(p) == PromptLength(p) > MaxPromptLength

\* catch block of generateVideo
GenerateCatch(t, lg, errorMessage) ==
    Step([t EXCEPT !.pc = "done", !.outcome = "failed"],
         MkStatus("failed", 0, Null, Null, errorMessage),
         addLog(lg, "error", "Generation failed: " \o errorMessage))

PollCatch_NoMessage(t, lg, errorMessage) ==
    Step([t EXCEPT !.pc = "done", !.outcome = "failed"],
         MkStatus("failed", 0, Null, Null, Null),
         addLog(lg, "error", errorMessage))

PollCatch_KeepsId(t, lg, errorMessage) ==
    Step([t EXCEPT !.pc = "done", !.outcome = "failed"],
         MkStatus("failed", 0, t.videoId, Null, errorMessage),
         addLog(lg, "error", errorMessage))

PollCatch_Retry(t, lg, errorMessage) ==
    Step([t EXCEPT !.pc = "sleeping"],
         MkStatus("failed", 0, Null, Null, errorMessage),
         addLog(lg, "error", errorMessage))

PollCatch_ToIdle(t, lg, errorMessage) ==
    Step([t EXCEPT !.pc = "done", !.outcome = "failed"],
         MkStatus("idle", 0, Null, Null, errorMessage),
         addLog(lg, "error", errorMessage))

\* catch block of pollVideoStatus
PollCatch(t, lg, errorMessage) ==
    Step([t EXCEPT !.pc = "done", !.outcome = "failed"],
         MkStatus("failed", 0, Null, Null, errorMessage),
         addLog(lg, "error", errorMessage))

StatusRequestId_FromState(t) == videoStatus.videoId

\* the identifier put in the URL of a status query
StatusRequestId(t) == t.videoId

\* the next status query
NextQuery(t, vs, lg) ==
    Step([t EXCEPT !.pc = "awaitStatus", !.queries = @ + 1,
                   !.queryIds = @ \cup {StatusRequestId(t)}],
         vs,
         addLog(lg, "info", "Checking video status... (Attempt "
                              \o ToString(t.attempts + 1) \o "/"
                              \o ToString(maxAttempts) \o ")"))

TimedOut_Silent(t, lg) ==
    Step([t EXCEPT !.pc = "done", !.outcome = "failed"],
         videoStatus,
         addLog(lg, "error", "Video generation timed out after maximum attempts"))

\* the two statements after the while loop
TimedOut(t, lg) ==
    Step([t EXCEPT !.pc = "done", !.outcome = "failed"],
         MkStatus("failed", 0, Null, Null, "Video generation timed out"),
         addLog(lg, "error", "Video generation timed out after maximum attempts"))

PollLoop_OneMore(t, vs, lg) ==
    IF t.attempts <= maxAttempts THEN NextQuery(t, vs, lg) ELSE TimedOut(t, lg)

\* pollVideoStatus from the test of its while loop to its next await: the
\* next status query, or the timeout after the loop
PollLoop(t, vs, lg) ==
    IF t.attempts < maxAttempts THEN NextQuery(t, vs, lg) ELSE TimedOut(t, lg)

CreateRefused_StatusOnly(r) == ~ResponseOk(r)

\* if (!genRes.ok || !genData.data?.video_id)
CreateRefused(r) == ~ResponseOk(r) \/ Falsy(r.body.video_id)

\* generateVideo from the answer of /api/generate on
HandleCreate(t, r, vs, lg) ==
    LET t1 == [t EXCEPT !.respId = r.body.video_id]
    IN  IF r.thrown THEN GenerateCatch(t1, lg, r.message)
        ELSE IF CreateRefused(r)
        THEN GenerateCatch(t1, lg, Or(r.body.error_message, "Failed to generate video"))
        ELSE LET videoId == r.body.video_id
             IN  PollLoop([t1 EXCEPT !.videoId = videoId],
                          MkStatus("processing", 30, videoId, Null, Null),
                          addLog(lg, "success", "Video generation started! ID: " \o videoId))

ExtractVideoUrl_PrimaryOnly(body) == body.video_url

\* statusData.data?.video_url || statusData.data?.output?.video_url
ExtractVideoUrl(body) == Or(body.video_url, body.output_video_url)

RemoteFailureMessage_Generic(body) == "Video generation failed"

\* statusData.data?.error?.message || "Video generation failed"
RemoteFailureMessage(body) == Or(body.data_error_message, "Video generation failed")

CheckFailedMessage_Generic(r) == "Failed to check status"

\* statusData.error?.message || "Failed to check status"
CheckFailedMessage(r) == Or(r.body.error_message, "Failed to check status")

JobFailed_Misspelt(status) == status = "fail"

\* else if (status === "failed")
JobFailed(status) == status = "failed"

\* pollVideoStatus from the answer of /api/status/<id> on
HandleStatus(t, r, vs, lg) ==
    LET t1 == t
        status == r.body.status
        progress == ProgressOf(t.attempts)
    IN  IF r.thrown THEN PollCatch(t1, lg, r.message)
        ELSE IF ~ResponseOk(r)
        THEN PollCatch(t1, lg, CheckFailedMessage(r))
        ELSE IF status = "completed"
        THEN LET videoUrl == ExtractVideoUrl(r.body)
             IN  IF Falsy(videoUrl)
                 THEN PollCatch(t1, lg, "Video URL not found in response")
                 ELSE Step([t1 EXCEPT !.pc = "done", !.outcome = "completed"],
                           MkStatus("completed", 100, t.videoId, videoUrl, Null),
                           addLog(lg, "success", "Video generation completed successfully!"))
        ELSE IF JobFailed(status)
        THEN PollCatch(t1, lg, RemoteFailureMessage(r.body))
        ELSE Step([t1 EXCEPT !.pc = "sleeping", !.nonTerminal = @ + 1,
                             !.published = Append(@, progress)],
                  [vs EXCEPT !.progress = progress],
                  addLog(lg, "info", "Status: " \o Or(status, "processing") \o "..."))

\* an answer that is neither an error nor a terminal job state
NonTerminal(r) == ~r.thrown /\ ResponseOk(r) /\ r.body.status \notin {"completed", "failed"}

ResetStatus_Spread == [videoStatus EXCEPT !.status = "idle", !.progress = 0]

\* setVideoStatus({ status: "idle", progress: 0 })
ResetStatus == MkStatus("idle", 0, Null, Null, Null)

\* the answer a step consumed, when it consumed none
NoResponse == MkResponse(0, EmptyBody)

Init ==
    /\ prompt = DefaultPrompt
    /\ videoStatus = MkStatus("idle", 0, Null, Null, Null)
    /\ logs = <<>>
    /\ tasks = <<>>
    /\ HEYGEN_KEY \in BOOLEAN
    /\ lastOp = [name |-> "init", task |-> 0, resp |-> NoResponse,
                 up |-> NoUpstream, upstreamRequests |-> 0]

\* the step taken last: which handler ran, for which invocation, on which
\* answer, made from which upstream answer with how many upstream requests
OpVia(name, i, a) ==
    [name |-> name, task |-> i, resp |-> a.resp, up |-> a.up,
     upstreamRequests |-> UpstreamRequests(a.up, HEYGEN_KEY)]

Op(name, i, r) == OpVia(name, i, Via(NoUpstream, r))

\* disabled={videoStatus.status === "generating" || videoStatus.status === "processing"}
GenerateDisabled == videoStatus.status \in {"generating", "processing"}

\* the user leaves the prompt as it is or types p (onChange), then clicks
\* Generate: generateVideo up to its first await
GenerateVideo(p) ==
    /\ ~GenerateDisabled
    /\ Len(tasks) < MaxInvocations
    /\ Cardinality({i \in 1..Len(tasks) : InFlight(tasks[i])}) < MaxInFlight
    /\ prompt' = p
    /\ lastOp' = Op("generateVideo", Len(tasks) + 1, NoResponse)
    /\ IF PromptEmpty(p)
       THEN /\ logs' = addLog(logs, "error", "Please enter a prompt")
            /\ tasks' = Append(tasks, NewTask(p))
            /\ UNCHANGED videoStatus
       ELSE IF PromptTooLong(p)
       THEN /\ logs' = addLog(logs, "error", "Prompt must be less than 1500 characters")
            /\ tasks' = Append(tasks, NewTask(p))
            /\ UNCHANGED videoStatus
       ELSE /\ videoStatus' = MkStatus("generating", 10, Null, Null, Null)
            /\ logs' = addLog(addLog(logs, "info", "Starting video generation..."),
                              "info", "Sending request to HeyGen API...")
            /\ tasks' = Append(tasks, [NewTask(p) EXCEPT !.pc = "awaitCreate",
                                                         !.creates = 1,
                                                         !.outcome = "none"])
    /\ UNCHANGED HEYGEN_KEY

Apply(i, res) ==
    /\ tasks' = [tasks EXCEPT ![i] = res.task]
    /\ videoStatus' = res.videoStatus
    /\ logs' = res.logs
    /\ UNCHANGED <<prompt, HEYGEN_KEY>>

\* the answer to the creation request of invocation i arrives
CreateResponds(i, all) ==
    /\ tasks[i].pc = "awaitCreate"
    /\ \E a \in GenAnswers(i, HEYGEN_KEY, all) :
          /\ lastOp' = OpVia("createResponse", i, a)
          /\ Apply(i, HandleCreate(tasks[i], a.resp, videoStatus, logs))

\* the answer to the outstanding status query of invocation i arrives; the
\* remote keeps a job non-terminal for at most cap answers
StatusResponds(i, cap, all) ==
    /\ tasks[i].pc = "awaitStatus"
    /\ \E a \in StatusAnswers(tasks[i].videoId, HEYGEN_KEY, all) :
          /\ NonTerminal(a.resp) => tasks[i].nonTerminal < cap
          /\ lastOp' = OpVia("statusResponse", i, a)
          /\ Apply(i, HandleStatus(tasks[i], a.resp, videoStatus, logs))

TimerFires_Early(i) ==
    /\ tasks[i].pc \in {"sleeping", "awaitStatus"}
    /\ lastOp' = Op("timer", i, NoResponse)
    /\ Apply(i, PollLoop([tasks[i] EXCEPT !.slept = @ + PollIntervalMs,
                                          !.attempts = @ + 1],
                         videoStatus, logs))

\* setTimeout(resolve, 3000) of invocation i fires: attempts++ and the loop
\* goes round
TimerFires(i) ==
    /\ tasks[i].pc = "sleeping"
    /\ lastOp' = Op("timer", i, NoResponse)
    /\ Apply(i, PollLoop([tasks[i] EXCEPT !.slept = @ + PollIntervalMs,
                                          !.attempts = @ + 1],
                         videoStatus, logs))

\* resetGenerator (the video element is not part of the model)
ResetGenerator ==
    /\ videoStatus' = ResetStatus
    /\ logs' = <<>>
    /\ lastOp' = Op("resetGenerator", 0, NoResponse)
    /\ UNCHANGED <<prompt, tasks, HEYGEN_KEY>>

----------------------------------------------------------------------------
(* The component under every interleaving of clicks, answers and timers,  *)
(* with a representative set of answers.                                   *)

Generate == \E p \in Prompts \cup {prompt} : GenerateVideo(p)

CreateAnswer == \E i \in 1..Len(tasks) : CreateResponds(i, FALSE)

StatusAnswer == \E i \in 1..Len(tasks) : StatusResponds(i, MaxPending, FALSE)

Timer == \E i \in 1..Len(tasks) : TimerFires(i)

Next ==
    \/ Generate
    \/ CreateAnswer
    \/ StatusAnswer
    \/ Timer
    \/ ResetGenerator

Spec == Init /\ [][Next]_vars

----------------------------------------------------------------------------
(* One generation attempt followed to its end: the user acts only while no *)
(* invocation is suspended, starts a single attempt (invalid prompts may   *)
(* be rejected before it), every answer of the routes is explored and the  *)
(* remote may keep the job non-terminal for the whole attempt budget.      *)

Quiet == \A i \in 1..Len(tasks) : ~InFlight(tasks[i])

NoAttemptYet == \A i \in 1..Len(tasks) : tasks[i].outcome = "rejected"

ClickGenerate == Quiet /\ NoAttemptYet /\ Generate

AnyCreateAnswer == \E i \in 1..Len(tasks) : CreateResponds(i, TRUE)

AnyStatusAnswer == \E i \in 1..Len(tasks) : StatusResponds(i, maxAttempts, TRUE)

ClickReset == Quiet /\ ~NoAttemptYet /\ ResetGenerator

NextAttempt ==
    \/ ClickGenerate
    \/ AnyCreateAnswer
    \/ AnyStatusAnswer
    \/ Timer
    \/ ClickReset

SpecAttempt == Init /\ [][NextAttempt]_vars

\* the same, when every outstanding status query is answered in the end and
\* every timer that was set fires
SpecAttemptLive ==
    SpecAttempt /\ WF_vars(AnyCreateAnswer) /\ WF_vars(AnyStatusAnswer) /\ WF_vars(Timer)

----------------------------------------------------------------------------
(* Properties *)

Present(x) == x # Null /\ x # ""

NumTasks == Len(tasks)

\* classification of the answer the last step consumed
CreateSucceeded(r) == ~r.thrown /\ r.code \in 200..299 /\ Present(r.body.video_id)

AnsweredOk(r) == ~r.thrown /\ r.code \in 200..299

ReportsCompleted(r) == AnsweredOk(r) /\ r.body.status = "completed"

ReportsFailed(r) == AnsweredOk(r) /\ r.body.status = "failed"

LastWas(name) == lastOp.name = name

\* C1: after n < 100 non-terminal answers followed by 'completed' with a
\* result URL, the invocation has published exactly the n progress values
\* min(30 + 2k, 90), k = 0..n-1, in that order, and the state is
\* 'completed' with progress 100 and the URL of the answer.
C1_ProgressThenCompleted ==
    \A i \in 1..NumTasks :
        LET t == tasks[i]
            n == t.nonTerminal
            r == lastOp.resp
        IN  (/\ LastWas("statusResponse") /\ lastOp.task = i
             /\ ReportsCompleted(r)
             /\ (Present(r.body.video_url) \/ Present(r.body.output_video_url))
             /\ n < 100)
            => /\ Len(t.published) = n
               /\ \A k \in 0..(n - 1) :
                     t.published[k + 1] = (IF 30 + 2 * k < 90 THEN 30 + 2 * k ELSE 90)
               /\ videoStatus.status = "completed"
               /\ videoStatus.progress = 100
               /\ videoStatus.videoUrl = (IF Present(r.body.video_url) THEN r.body.video_url
                                          ELSE r.body.output_video_url)

C1_Witness ==
    /\ LastWas("statusResponse")
    /\ ReportsCompleted(lastOp.resp)
    /\ tasks[lastOp.task].nonTerminal = 99
    /\ tasks[lastOp.task].published[5] = 38
    /\ tasks[lastOp.task].published[99] = 90
    /\ videoStatus.status = "completed"

\* C2: a job that stays non-terminal is queried exactly 100 times, each
\* query after the first follows a wait of the fixed interval, and the
\* attempt then ends 'failed' with the timeout error; there is no 101st
\* query.
C2_TimeoutAfterBudget ==
    \A i \in 1..NumTasks :
        LET t == tasks[i]
        IN  /\ t.queries <= 100
            /\ t.pc = "awaitStatus" => t.slept = (t.queries - 1) * 3000
            /\ (t.nonTerminal = 100 /\ t.pc = "sleeping") => t.queries = 100
            /\ (t.nonTerminal = 100 /\ t.pc = "done")
               => /\ t.queries = 100
                  /\ t.slept = 100 * 3000
                  /\ (LastWas("timer") /\ lastOp.task = i)
                     => videoStatus = MkStatus("failed", 0, Null, Null, "Video generation timed out")

C2_Witness ==
    /\ LastWas("timer")
    /\ tasks[lastOp.task].nonTerminal = 100
    /\ tasks[lastOp.task].pc = "done"
    /\ videoStatus.status = "failed"

\* C3: an answer that reports the job 'failed' ends the attempt at once in
\* status 'failed'; the error is the message of the answer when it has one
\* and "Video generation failed" otherwise.
C3_RemoteFailure ==
    (LastWas("statusResponse") /\ ReportsFailed(lastOp.resp))
    => LET t == tasks[lastOp.task]
           m == lastOp.resp.body.data_error_message
       IN  /\ t.pc = "done"
           /\ t.queries = t.nonTerminal + 1
           /\ videoStatus.status = "failed"
           /\ videoStatus.error = (IF Present(m) THEN m ELSE "Video generation failed")

C3_Witness ==
    /\ LastWas("statusResponse")
    /\ ReportsFailed(lastOp.resp)
    /\ lastOp.resp.body.data_error_message = "synthesis error"
    /\ videoStatus.error = "synthesis error"

\* C4: on a 'completed' answer the result is the primary URL when there is
\* one, else the fallback output.video_url when there is one; with neither
\* the attempt ends 'failed' with the missing-URL error, not 'completed'.
C4_ResultUrl ==
    (LastWas("statusResponse") /\ ReportsCompleted(lastOp.resp))
    => LET b == lastOp.resp.body
       IN  IF Present(b.video_url)
           THEN videoStatus.status = "completed" /\ videoStatus.videoUrl = b.video_url
           ELSE IF Present(b.output_video_url)
           THEN videoStatus.status = "completed" /\ videoStatus.videoUrl = b.output_video_url
           ELSE /\ videoStatus.status = "failed"
                /\ videoStatus.error = "Video URL not found in response"
                /\ tasks[lastOp.task].outcome = "failed"

C4_Witness ==
    /\ LastWas("statusResponse")
    /\ ReportsCompleted(lastOp.resp)
    /\ ~Present(lastOp.resp.body.video_url)
    /\ Present(lastOp.resp.body.output_video_url)
    /\ videoStatus.videoUrl = lastOp.resp.body.output_video_url

\* C5: an invocation whose prompt has trimmed length 0 or length above 1500
\* sends no creation request and no status query.
C5_InvalidPromptNoRequest ==
    \A i \in 1..NumTasks :
        LET t == tasks[i]
        IN  (t.prompt.core = 0 \/ t.prompt.lead + t.prompt.core + t.prompt.trail > 1500)
            => t.creates = 0 /\ t.queries = 0 /\ t.pc = "done"

C5_Witness ==
    \E i \in 1..NumTasks :
        /\ tasks[i].prompt.core = 1499
        /\ tasks[i].prompt.lead + tasks[i].prompt.core + tasks[i].prompt.trail = 1501
        /\ tasks[i].creates = 0

\* C6: the identifier of a successful creation answer is the one stored in
\* the state and the only one put in the status queries of that invocation.
C6_JobIdPassthrough ==
    \A i \in 1..NumTasks :
        LET t == tasks[i]
        IN  /\ t.queryIds \subseteq {t.respId}
            /\ (LastWas("createResponse") /\ lastOp.task = i /\ CreateSucceeded(lastOp.resp))
               => /\ videoStatus.videoId = lastOp.resp.body.video_id
                  /\ t.queryIds = {lastOp.resp.body.video_id}
            /\ (LastWas("statusResponse") /\ lastOp.task = i /\ t.outcome = "completed")
               => videoStatus.videoId = t.respId

C6_Witness ==
    \E i \in 1..NumTasks :
        /\ Present(tasks[i].respId)
        /\ tasks[i].queries = 2
        /\ tasks[i].queryIds = {tasks[i].respId}
        /\ videoStatus.videoId = tasks[i].respId

\* C7: right after resetGenerator the state is 'idle' with progress 0, no
\* job identifier, no result URL, no error, and the log is empty, whatever
\* the state was and whatever is still in flight.
C7_ResetClears ==
    LastWas("resetGenerator")
    => /\ videoStatus.status = "idle"
       /\ videoStatus.progress = 0
       /\ videoStatus.videoId = Null
       /\ videoStatus.videoUrl = Null
       /\ videoStatus.error = Null
       /\ logs = <<>>

C7_Witness ==
    /\ LastWas("resetGenerator")
    /\ \E i \in 1..NumTasks : tasks[i].pc = "sleeping"
    /\ videoStatus.status = "idle"

\* the step taken last met an error of the attempt
CreateError == LastWas("createResponse") /\ ~CreateSucceeded(lastOp.resp)

StatusError ==
    /\ LastWas("statusResponse")
    /\ \/ ~AnsweredOk(lastOp.resp)
       \/ ReportsFailed(lastOp.resp)
       \/ /\ ReportsCompleted(lastOp.resp)
          /\ ~Present(lastOp.resp.body.video_url)
          /\ ~Present(lastOp.resp.body.output_video_url)

BudgetExhausted == LastWas("timer") /\ tasks[lastOp.task].nonTerminal = 100

\* C8: every error of an attempt (creation refused, unparseable or without
\* identifier, status check failed, job failed, result URL missing, budget
\* exhausted) ends the attempt in status 'failed' with a non-empty error.
C8_ErrorsEndFailed ==
    (CreateError \/ StatusError \/ BudgetExhausted)
    => /\ videoStatus.status = "failed"
       /\ Present(videoStatus.error)
       /\ tasks[lastOp.task].pc = "done"
       /\ tasks[lastOp.task].outcome = "failed"

C8_Witness ==
    /\ StatusError
    /\ ~AnsweredOk(lastOp.resp)
    /\ tasks[lastOp.task].nonTerminal = 3
    /\ videoStatus.status = "failed"
    /\ videoStatus.error = "Invalid response format from HeyGen API"

AttemptStep(op) == op.name \in {"createResponse", "statusResponse", "timer"}

\* C9 as stated: progress stays in 0..100 and no step of an attempt after
\* its start lowers it.
C9_ProgressNeverDecreases ==
    /\ [](videoStatus.progress \in 0..100)
    /\ [][AttemptStep(lastOp') => videoStatus'.progress >= videoStatus.progress]_vars

\* C9 amended: progress stays in 0..100 and no step of an attempt that runs
\* alone lowers it, except the step that ends the attempt in 'failed',
\* which sets it to 0.
C9_ProgressMonotoneUntilFailure ==
    /\ [](videoStatus.progress \in 0..100)
    /\ [][AttemptStep(lastOp')
            => \/ videoStatus'.progress >= videoStatus.progress
               \/ /\ videoStatus'.status = "failed"
                  /\ videoStatus'.progress = 0
                  /\ tasks[lastOp'.task].outcome = "none"
                  /\ tasks'[lastOp'.task].outcome = "failed"]_vars

C9_Witness ==
    /\ LastWas("statusResponse")
    /\ tasks[lastOp.task].outcome = "failed"
    /\ Len(tasks[lastOp.task].published) = 40
    /\ videoStatus.progress = 0

HasJobId == videoStatus.videoId # Null

\* the current 'failed' was written by the poll of an attempt whose
\* creation request had succeeded / by the creation step itself
FailedAfterCreation ==
    /\ videoStatus.status = "failed"
    /\ (LastWas("statusResponse") \/ LastWas("timer"))
    /\ tasks[lastOp.task].outcome = "failed"

FailedBeforeCreation ==
    /\ videoStatus.status = "failed"
    /\ LastWas("createResponse")

\* C10 as stated: a job identifier is held in 'processing', 'completed' and
\* 'failed' after a successful creation, and in no other state.
C10_JobIdIffSubmitted ==
    /\ (videoStatus.status \in {"processing", "completed"} \/ FailedAfterCreation) => HasJobId
    /\ (videoStatus.status \in {"idle", "generating"} \/ FailedBeforeCreation) => ~HasJobId

\* C10 amended: a job identifier is held exactly in 'processing' and
\* 'completed'; 'failed' holds none, also after a successful creation.
C10_JobIdIffProcessingOrCompleted ==
    HasJobId <=> videoStatus.status \in {"processing", "completed"}

C10_Witness ==
    /\ FailedAfterCreation
    /\ Present(tasks[lastOp.task].respId)
    /\ ~HasJobId

\* position of a status on the path idle -> generating -> processing ->
\* {completed, failed}
Rank(status) ==
    CASE status = "idle" -> 0
      [] status = "generating" -> 1
      [] status = "processing" -> 2
      [] OTHER -> 3

\* the status invocation i wrote last, while it is suspended
OwnStatus(i) == IF tasks[i].pc = "awaitCreate" THEN "generating" ELSE "processing"

\* invocation i is the only one that was not rejected
OnlyAttempt(i) == \A j \in (1..NumTasks) \ {i} : tasks[j].outcome = "rejected"

Polling(i) == i <= NumTasks /\ tasks[i].pc \in {"awaitStatus", "sleeping"}

PollEnded(i) ==
    /\ i <= NumTasks
    /\ tasks[i].pc = "done"
    /\ lastOp.task = i
    /\ videoStatus.status \in {"completed", "failed"}

\* C12: when every status query is answered, a poll that has started
\* reaches its end, with the attempt in 'completed' or 'failed'.
C12_PollTerminates ==
    \A i \in 1..MaxInvocations : Polling(i) ~> PollEnded(i)

C12_Witness ==
    \E i \in 1..NumTasks :
        /\ PollEnded(i)
        /\ tasks[i].nonTerminal = 50
        /\ tasks[i].outcome = "completed"

\* C13: the answer 'completed' or 'failed' ends the invocation that asked,
\* an invocation that has ended sends no further status query, and no
\* other invocation queries the same job.
C13_NoQueryAfterTerminal ==
    /\ []((LastWas("statusResponse")
            /\ (ReportsCompleted(lastOp.resp) \/ ReportsFailed(lastOp.resp)))
           => tasks[lastOp.task].pc = "done")
    /\ [](\A i, j \in 1..NumTasks :
             i # j => tasks[i].queryIds \cap tasks[j].queryIds = {})
    /\ [][\A i \in 1..MaxInvocations :
             (i <= NumTasks /\ tasks[i].pc = "done")
             => tasks'[i].pc = "done" /\ tasks'[i].queries = tasks[i].queries]_vars

C13_Witness ==
    /\ LastWas("statusResponse")
    /\ ReportsFailed(lastOp.resp)
    /\ tasks[lastOp.task].pc = "done"
    /\ tasks[lastOp.task].queries = 2

\* C14: a status check that fails (fetch or json() rejects, or a
\* non-success answer of the route) ends the invocation at once in 'failed'
\* with the message of the check; a further query is only ever sent after
\* a non-terminal answer, however many attempts remain.
C14_CheckFailureNotRetried ==
    /\ \A i \in 1..NumTasks : tasks[i].queries <= tasks[i].nonTerminal + 1
    /\ (LastWas("statusResponse") /\ ~AnsweredOk(lastOp.resp))
       => LET t == tasks[lastOp.task]
              r == lastOp.resp
          IN  /\ t.pc = "done"
              /\ t.attempts < 100
              /\ videoStatus.status = "failed"
              /\ videoStatus.error = (IF r.thrown THEN r.message
                                      ELSE IF Present(r.body.error_message)
                                      THEN r.body.error_message
                                      ELSE "Failed to check status")

C14_Witness ==
    /\ LastWas("statusResponse")
    /\ ~AnsweredOk(lastOp.resp)
    /\ lastOp.resp.code = 404
    /\ tasks[lastOp.task].attempts = 7
    /\ tasks[lastOp.task].pc = "done"
    /\ videoStatus.error = "video not found"

\* C15: an invocation sends at most one creation request; when the answer
\* is an error, a non-success status or lacks the identifier, the
\* invocation ends there without a status query, and an ended invocation
\* sends neither a creation request nor a status query again.
C15_FailedSubmissionTerminal ==
    /\ [](\A i \in 1..NumTasks : tasks[i].creates <= 1)
    /\ []((LastWas("createResponse") /\ ~CreateSucceeded(lastOp.resp))
           => /\ tasks[lastOp.task].pc = "done"
              /\ tasks[lastOp.task].creates = 1
              /\ tasks[lastOp.task].queries = 0
              /\ videoStatus.status = "failed")
    /\ [][\A i \in 1..MaxInvocations :
             (i <= NumTasks /\ tasks[i].pc = "done")
             => /\ tasks'[i].creates = tasks[i].creates
                /\ tasks'[i].queries = tasks[i].queries]_vars

C15_Witness ==
    /\ LastWas("createResponse")
    /\ lastOp.resp.code = 200
    /\ lastOp.resp.body.video_id = Null
    /\ tasks[lastOp.task].queries = 0
    /\ videoStatus.error = "Failed to generate video"

Suspended == {i \in 1..NumTasks : InFlight(tasks[i])}

\* C16: while an invocation is suspended on its creation request or in
\* its polling loop the Generate button is disabled, and at most one
\* invocation is suspended at any time.
C16_AtMostOneInFlight ==
    /\ Suspended # {} => GenerateDisabled
    /\ Cardinality(Suspended) <= 1

\* C17: an invocation that waits for a status answer has exactly one query
\* outstanding (all earlier ones were answered) and has waited one full
\* interval after each earlier answer; while it waits for the timer it has
\* none outstanding; no two invocations query the same job.
C17_SequentialPolling ==
    \A i \in 1..NumTasks :
        LET t == tasks[i]
        IN  /\ t.pc = "awaitStatus"
               => t.queries = t.nonTerminal + 1 /\ t.slept = t.nonTerminal * 3000
            /\ t.pc = "sleeping"
               => t.queries = t.nonTerminal /\ t.slept = (t.nonTerminal - 1) * 3000
            /\ t.pc = "awaitCreate" => t.queries = 0
            /\ \A j \in (1..NumTasks) \ {i} : t.queryIds \cap tasks[j].queryIds = {}

C17_Witness ==
    \E i \in 1..NumTasks :
        /\ tasks[i].pc = "awaitStatus"
        /\ tasks[i].queries = 2
        /\ tasks[i].nonTerminal = 1
        /\ tasks[i].slept = 3000

\* the upstream answered with a body that is not JSON
MalformedUpstream(up) == up.net = "ok" /\ ~up.parses

\* C18: when api.heygen.com answers a route with a body that is not JSON,
\* the route answers 500 with an error message after its single upstream
\* request, and the invocation ends in 'failed' with that message instead
\* of polling on.
C18_MalformedBodyHardFailure ==
    (/\ LastWas("createResponse") \/ LastWas("statusResponse")
     /\ HEYGEN_KEY
     /\ MalformedUpstream(lastOp.up))
    => /\ lastOp.resp.code = 500
       /\ lastOp.resp.body.hasError
       /\ Present(lastOp.resp.body.error_message)
       /\ lastOp.upstreamRequests = 1
       /\ tasks[lastOp.task].pc = "done"
       /\ videoStatus.status = "failed"
       /\ videoStatus.error = lastOp.resp.body.error_message

C18_Witness ==
    /\ LastWas("statusResponse")
    /\ MalformedUpstream(lastOp.up)
    /\ lastOp.up.contentType = "application/json"
    /\ lastOp.resp.code = 500
    /\ tasks[lastOp.task].nonTerminal = 2
    /\ videoStatus.status = "failed"

\* the state resetGenerator writes
Cleared ==
    /\ videoStatus.status = "idle"
    /\ videoStatus.progress = 0
    /\ videoStatus.videoUrl = Null

\* C19: once the state is idle with progress 0 and no result URL, it stays
\* so until generateVideo is invoked again; no step of an invocation
\* started earlier changes it.
C19_IdleUntilNextGenerate ==
    [][(Cleared /\ lastOp'.name # "generateVideo") => Cleared']_vars

\* C20: status 'completed' implies progress 100, a job identifier and a
\* non-empty result URL, the URL being one returned for that identifier.
C20_CompletedIsConsistent ==
    videoStatus.status = "completed"
    => /\ videoStatus.progress = 100
       /\ Present(videoStatus.videoId)
       /\ Present(videoStatus.videoUrl)
       /\ videoStatus.videoUrl \in {UrlOf(videoStatus.videoId), OutputUrlOf(videoStatus.videoId)}

\* the step is an invocation of generateVideo that returned at one of its
\* two prompt checks
RejectedStep ==
    /\ lastOp'.name = "generateVideo"
    /\ tasks'[lastOp'.task].outcome = "rejected"

\* C21: an invocation of generateVideo rejected for its prompt leaves
\* status, progress, job identifier, result URL and error as they were,
\* sends no request, and adds exactly one entry, of type error, at the
\* front of the log.
C21_RejectionOnlyLogs ==
    [][RejectedStep
       => /\ videoStatus' = videoStatus
          /\ Len(logs') = Len(logs) + 1
          /\ Head(logs').type = "error"
          /\ Tail(logs') = logs
          /\ tasks'[lastOp'.task].creates = 0
          /\ ~InFlight(tasks'[lastOp'.task])]_vars

C21_Witness ==
    /\ lastOp.name = "generateVideo"
    /\ tasks[lastOp.task].outcome = "rejected"
    /\ PromptLength(prompt) > MaxPromptLength
    /\ videoStatus.status = "failed"
    /\ Present(videoStatus.error)
    /\ Len(logs) > 1
    /\ Head(logs) = [type |-> "error", message |-> "Prompt must be less than 1500 characters"]

====
